---------------------------- MODULE Spec2Model ----------------------------
(***************************************************************************)
(* A model of sync-publications: the BibTeX-like parser, the field         *)
(* normalizer, the entry orderer, the link resolver, the grouping renderer, *)
(* the canonical serializer and the main sequence that rewrites the         *)
(* bibliography and splices the rendering into index.html.                  *)
(*                                                                         *)
(* Text is modelled as TLA+ strings; a character is a string of length 1.   *)
(* Cursors are 0-based as in the source: At(s, i) is s[i] of JavaScript,    *)
(* and Undefined past the end.                                              *)
(***************************************************************************)
EXTENDS Integers, Sequences, FiniteSets, TLC

VARIABLES
    pc,          \* position of the running operation
    tex,         \* the text parseBib scans
    i,           \* parseBib's cursor
    entries,     \* parseBib's result list
    cur,         \* the record under construction: [type, key, fields]
    read,        \* the last readBibValue call: [start, value, next]
    prev,        \* the last parser step: [op, i, m], cursor and measure before it
    cleaned,     \* cleanEntries' result
    bibFile,     \* the content of systowe.bib
    reread,      \* the bibliography file parsed and normalized again
    entry,       \* the entry buildLinks is given
    pdfExists,   \* fs.existsSync(pdfPath) for that entry
    links,       \* buildLinks' result
    html,        \* generatePublicationHtml's lines
    authorField, \* the author field normalizeAuthorList is given
    authors,     \* normalizeAuthorList's result
    indexFile,   \* the content of index.html
    writes,      \* the files this run has written, in order
    recs         \* the records the text was assembled from (SpecRecords)

vars == <<pc, tex, i, entries, cur, read, prev, recs, cleaned, bibFile, reread,
          entry, pdfExists, links, html, authorField, authors, indexFile, writes>>

parserVars == <<tex, i, entries, cur, read, prev, recs>>
mainVars == <<cleaned, bibFile, reread>>
linkVars == <<entry, pdfExists, links>>
authorVars == <<authorField, authors>>
fileVars == <<indexFile, writes>>

(***************************************************************************)
(* Characters and strings                                                  *)
(***************************************************************************)
Undefined == "undefined"    \* tex[i] with i >= tex.length; never a character

UpperCase == "ABCDEFGHIJKLMNOPQRSTUVWXYZ"
LowerCase == "abcdefghijklmnopqrstuvwxyz"
DigitChars == "0123456789"

CharsOf(s) == { SubSeq(s, k, k) : k \in 1..Len(s) }

\* /\s/ restricted to the whitespace characters the model's texts use
WhiteSpace == {" ", "\n", "\t"}
\* /[A-Za-z]/
Letters == CharsOf(UpperCase) \cup CharsOf(LowerCase)
\* /[A-Za-z0-9_-]/
NameChars == Letters \cup CharsOf(DigitChars) \cup {"_", "-"}

At(s, k) == IF k >= 0 /\ k < Len(s) THEN SubSeq(s, k + 1, k + 1) ELSE Undefined

\* s.slice(a, b) for 0 <= a, b
Slice(s, a, b) == SubSeq(s, a + 1, b)

LowerChar(c) ==
    IF c \in CharsOf(UpperCase)
    THEN LET k == CHOOSE n \in 1..Len(UpperCase) : SubSeq(UpperCase, n, n) = c
         IN  SubSeq(LowerCase, k, k)
    ELSE c

RECURSIVE ToLowerCase(_)
ToLowerCase(s) ==
    IF Len(s) = 0 THEN ""
    ELSE LowerChar(SubSeq(s, 1, 1)) \o ToLowerCase(SubSeq(s, 2, Len(s)))

RECURSIVE TrimStart(_)
TrimStart(s) ==
    IF Len(s) > 0 /\ SubSeq(s, 1, 1) \in WhiteSpace
    THEN TrimStart(SubSeq(s, 2, Len(s)))
    ELSE s

RECURSIVE TrimEnd(_)
TrimEnd(s) ==
    IF Len(s) > 0 /\ SubSeq(s, Len(s), Len(s)) \in WhiteSpace
    THEN TrimEnd(SubSeq(s, 1, Len(s) - 1))
    ELSE s

Trim(s) == TrimEnd(TrimStart(s))

\* while (i < tex.length && <tex[i] in S>) i += 1
RECURSIVE SkipIn(_, _, _)
SkipIn(s, k, S) ==
    IF k < Len(s) /\ At(s, k) \in S THEN SkipIn(s, k + 1, S) ELSE k

\* while (i < tex.length && <tex[i] not in S>) i += 1
RECURSIVE SkipNotIn(_, _, _)
SkipNotIn(s, k, S) ==
    IF k < Len(s) /\ At(s, k) \notin S THEN SkipNotIn(s, k + 1, S) ELSE k

\* tex.indexOf(c, k): the position of the first c at or after k, else -1
IndexOf(s, c, k) ==
    LET j == SkipNotIn(s, k, {c}) IN IF j < Len(s) THEN j ELSE -1

(***************************************************************************)
(* readBibValue                                                            *)
(***************************************************************************)
\* the brace-counting loop: returns the cursor after the loop
RECURSIVE BraceScan(_, _, _)
BraceScan(s, k, depth) ==
    IF k >= Len(s) THEN k
    ELSE IF At(s, k) = "{" THEN BraceScan(s, k + 1, depth + 1)
    ELSE IF At(s, k) = "}"
         THEN IF depth - 1 = 0 THEN k + 1 ELSE BraceScan(s, k + 1, depth - 1)
    ELSE BraceScan(s, k + 1, depth)

\* the quote loop: stops at a quote not preceded by a backslash
RECURSIVE QuoteScan(_, _)
QuoteScan(s, k) ==
    IF k >= Len(s) THEN k
    ELSE IF At(s, k) = "\"" /\ At(s, k - 1) # "\\" THEN k
    ELSE QuoteScan(s, k + 1)

readBibValue(s, start) ==
    IF At(s, start) = "{"
    THEN LET k == BraceScan(s, start, 0)
         IN  [value |-> Slice(s, start, k), next |-> k]
    ELSE IF At(s, start) = "\""
    THEN LET k == QuoteScan(s, start + 1)
         IN  [value |-> Slice(s, start + 1, k),
              next  |-> IF At(s, k) = "\"" THEN k + 1 ELSE k]
    ELSE LET k == SkipNotIn(s, start, {",", "}"})
         IN  [value |-> Slice(s, start, k), next |-> k]

(***************************************************************************)
(* parseBib                                                                *)
(***************************************************************************)
\* fields[name] = value
SetField(fields, name, value) ==
    [n \in DOMAIN fields \cup {name} |-> IF n = name THEN value ELSE fields[n]]

NoFields == [n \in {} |-> ""]

NoRecord == [type |-> "", key |-> "", fields |-> NoFields]

NoRead == [start |-> -1, value |-> "", next |-> -1]

NoStep == [op |-> "", i |-> -1, m |-> -1]

\* One iteration of the record loop, from the loop head to the start of the
\* field loop (or to the continue / break that ends the iteration).
\* Result: [i, to, cur], to in {"record" (continue), "field", "break"}.
RecordIteration(s, k) ==
    LET at == IndexOf(s, "@", k) IN
    IF at = -1 THEN [i |-> k, to |-> "break", cur |-> NoRecord]
    ELSE
    LET typeStart == SkipIn(s, at + 1, WhiteSpace)
        typeEnd   == SkipIn(s, typeStart, Letters)
        type      == ToLowerCase(Slice(s, typeStart, typeEnd))
        brace     == SkipIn(s, typeEnd, WhiteSpace)
    IN
    IF At(s, brace) # "{" THEN [i |-> brace, to |-> "record", cur |-> NoRecord]
    ELSE
    LET keyStart == SkipIn(s, brace + 1, WhiteSpace)
        keyEnd   == SkipNotIn(s, keyStart, {","})
        key      == Trim(Slice(s, keyStart, keyEnd))
    IN
    IF At(s, keyEnd) # "," THEN [i |-> keyEnd, to |-> "record", cur |-> NoRecord]
    ELSE [i |-> keyEnd + 1, to |-> "field",
          cur |-> [type |-> type, key |-> key, fields |-> NoFields]]

\* the field loop with its break on a missing "=" lost: the iteration ends
\* where it began and the loop goes on
FieldIterationNoBreak(s, k, fields) ==
    LET nameStart == SkipIn(s, k, WhiteSpace \cup {","}) IN
    IF At(s, nameStart) = "}"
    THEN [i |-> nameStart + 1, to |-> "exit", fields |-> fields, read |-> NoRead]
    ELSE
    LET nameEnd == SkipIn(s, nameStart, NameChars)
        name    == ToLowerCase(Slice(s, nameStart, nameEnd))
        eq      == SkipIn(s, nameEnd, WhiteSpace)
    IN
    IF At(s, eq) # "=" THEN [i |-> k, to |-> "field", fields |-> fields, read |-> NoRead]
    ELSE
    LET start == SkipIn(s, eq + 1, WhiteSpace)
        r     == readBibValue(s, start)
    IN  [i |-> r.next, to |-> "field",
         fields |-> SetField(fields, name, Trim(r.value)),
         read |-> [start |-> start, value |-> r.value, next |-> r.next]]

\* One iteration of the field loop.
\* Result: [i, to, fields], to in {"field" (next iteration), "exit"}.
FieldIteration(s, k, fields) ==
    LET nameStart == SkipIn(s, k, WhiteSpace \cup {","}) IN
    IF At(s, nameStart) = "}"
    THEN [i |-> nameStart + 1, to |-> "exit", fields |-> fields, read |-> NoRead]
    ELSE
    LET nameEnd == SkipIn(s, nameStart, NameChars)
        name    == ToLowerCase(Slice(s, nameStart, nameEnd))
        eq      == SkipIn(s, nameEnd, WhiteSpace)
    IN
    IF At(s, eq) # "=" THEN [i |-> eq, to |-> "exit", fields |-> fields, read |-> NoRead]
    ELSE
    LET start == SkipIn(s, eq + 1, WhiteSpace)
        r     == readBibValue(s, start)
    IN  [i |-> r.next, to |-> "field",
         fields |-> SetField(fields, name, Trim(r.value)),
         read |-> [start |-> start, value |-> r.value, next |-> r.next]]

PcRank == CASE pc = "field" -> 2 [] pc = "record" -> 1 [] OTHER -> 0

\* what is left to do: the text behind the cursor, then the loops to leave
Measure == 3 * (Len(tex) - i) + PcRank

Step(op) == [op |-> op, i |-> i, m |-> Measure]

\* while (i < tex.length) { ... }: one pass through the record loop's body
ParseRecord ==
    /\ pc = "record"
    /\ i < Len(tex)
    /\ LET r == RecordIteration(tex, i) IN
       /\ i' = r.i
       /\ cur' = r.cur
       /\ pc' = CASE r.to = "break"  -> "parsed"
                  [] r.to = "record" -> "record"
                  [] r.to = "field"  -> "field"
    /\ prev' = Step("record")
    /\ UNCHANGED <<tex, entries, read, recs, mainVars, linkVars, html, authorVars, fileVars>>

\* while (i < tex.length && !done) { ... }: one pass through the field
\* loop's body; leaving the loop pushes the entry
ParseField ==
    /\ pc = "field"
    /\ i < Len(tex)
    /\ LET r == FieldIteration(tex, i, cur.fields) IN
       /\ i' = r.i
       /\ read' = IF r.read = NoRead THEN read ELSE r.read
       /\ IF r.to = "exit"
          THEN /\ entries' = Append(entries, [cur EXCEPT !.fields = r.fields])
               /\ cur' = NoRecord
               /\ pc' = "record"
          ELSE /\ cur' = [cur EXCEPT !.fields = r.fields]
               /\ pc' = "field"
               /\ UNCHANGED entries
    /\ prev' = Step("field")
    /\ UNCHANGED <<tex, recs, mainVars, linkVars, html, authorVars, fileVars>>

\* the field loop's condition fails at the end of the text: push the entry
ParseFieldsEnd ==
    /\ pc = "field"
    /\ i >= Len(tex)
    /\ entries' = Append(entries, cur)
    /\ cur' = NoRecord
    /\ pc' = "record"
    /\ prev' = Step("fieldsEnd")
    /\ UNCHANGED <<tex, i, read, recs, mainVars, linkVars, html, authorVars, fileVars>>

\* the record loop's condition fails: return entries
ParseReturn ==
    /\ pc = "record"
    /\ i >= Len(tex)
    /\ pc' = "parsed"
    /\ prev' = Step("return")
    /\ UNCHANGED <<tex, i, entries, cur, read, recs, mainVars, linkVars, html, authorVars, fileVars>>

NextParse == ParseRecord \/ ParseField \/ ParseFieldsEnd \/ ParseReturn

\* parseBib as a function of the text: the loops above run to completion
RECURSIVE ParseFields(_, _, _)
ParseFields(s, k, fields) ==
    IF k >= Len(s) THEN [i |-> k, fields |-> fields]
    ELSE LET r == FieldIteration(s, k, fields) IN
         IF r.to = "exit" THEN [i |-> r.i, fields |-> r.fields]
         ELSE ParseFields(s, r.i, r.fields)

RECURSIVE ParseRecords(_, _, _)
ParseRecords(s, k, acc) ==
    IF k >= Len(s) THEN acc
    ELSE LET r == RecordIteration(s, k) IN
         IF r.to = "break" THEN acc
         ELSE IF r.to = "record" THEN ParseRecords(s, r.i, acc)
         ELSE LET f == ParseFields(s, r.i, NoFields)
              IN  ParseRecords(s, f.i, Append(acc, [r.cur EXCEPT !.fields = f.fields]))

parseBib(s) == ParseRecords(s, 0, <<>>)

(***************************************************************************)
(* bibToText, cleanEntries, getYear                                        *)
(***************************************************************************)
DROP_FIELDS == {"file", "langid", "urldate", "shortjournal", "issue"}

StartsWith(s, p) == Len(s) >= Len(p) /\ SubSeq(s, 1, Len(p)) = p
EndsWith(s, p) == Len(s) >= Len(p) /\ SubSeq(s, Len(s) - Len(p) + 1, Len(s)) = p

\* while (out.startsWith("{") && out.endsWith("}")) out = out.slice(1, -1).trim()
RECURSIVE StripOuterBraces(_)
StripOuterBraces(out) ==
    IF StartsWith(out, "{") /\ EndsWith(out, "}")
    THEN StripOuterBraces(Trim(SubSeq(out, 2, Len(out) - 1)))
    ELSE out

\* s.replace(/[<chars of S>]/g, "")
RECURSIVE RemoveChars(_, _)
RemoveChars(s, S) ==
    IF Len(s) = 0 THEN ""
    ELSE (IF SubSeq(s, 1, 1) \in S THEN "" ELSE SubSeq(s, 1, 1))
         \o RemoveChars(SubSeq(s, 2, Len(s)), S)

\* s.replace(/<pat>/g, rep) for a literal pattern: leftmost matches, no overlap
RECURSIVE ReplaceAll(_, _, _)
ReplaceAll(s, pat, rep) ==
    IF Len(s) = 0 THEN ""
    ELSE IF StartsWith(s, pat)
         THEN rep \o ReplaceAll(SubSeq(s, Len(pat) + 1, Len(s)), pat, rep)
         ELSE SubSeq(s, 1, 1) \o ReplaceAll(SubSeq(s, 2, Len(s)), pat, rep)

\* s.replace(/\s+/g, " ")
RECURSIVE CollapseWhiteSpace(_)
CollapseWhiteSpace(s) ==
    IF Len(s) = 0 THEN ""
    ELSE IF SubSeq(s, 1, 1) \in WhiteSpace
         THEN " " \o CollapseWhiteSpace(TrimStart(s))
         ELSE SubSeq(s, 1, 1) \o CollapseWhiteSpace(SubSeq(s, 2, Len(s)))

\* the unescaping chain of bibToText
Unescape(s) ==
    ReplaceAll(ReplaceAll(ReplaceAll(s, "\\&", "&"), "\\,", ","), "\\%", "%")

\* bibToText without its last trim
bibToTextNoFinalTrim(value) ==
    IF value = "" THEN ""
    ELSE CollapseWhiteSpace(Unescape(
             RemoveChars(StripOuterBraces(Trim(value)), {"{", "}"})))

bibToText(value) ==
    IF value = "" THEN ""
    ELSE Trim(CollapseWhiteSpace(Unescape(
             RemoveChars(StripOuterBraces(Trim(value)), {"{", "}"}))))

\* the fields loop of cleanEntries
CleanFields(fields) ==
    LET kept == { n \in DOMAIN fields :
                    n \notin DROP_FIELDS /\ bibToText(fields[n]) # "" }
    IN  [n \in kept |-> bibToText(fields[n])]

\* entry.fields.<name> is truthy: present and not empty
Has(e, name) == name \in DOMAIN e.fields /\ e.fields[name] # ""

getYear(e) ==
    IF Has(e, "year") THEN e.fields["year"]
    ELSE IF Has(e, "date") THEN Slice(e.fields["date"], 0, 4)
    ELSE "Unknown"

(***************************************************************************)
(* Number(), localeCompare, the default sort order of strings              *)
(***************************************************************************)
IsDigits(s) == Len(s) > 0 /\ \A k \in 1..Len(s) : SubSeq(s, k, k) \in CharsOf(DigitChars)

DigitValue(c) == (CHOOSE n \in 1..10 : SubSeq(DigitChars, n, n) = c) - 1

RECURSIVE DecimalValue(_)
DecimalValue(s) ==
    IF Len(s) = 0 THEN 0
    ELSE 10 * DecimalValue(SubSeq(s, 1, Len(s) - 1)) + DigitValue(SubSeq(s, Len(s), Len(s)))

\* Number(s) for a trimmed string that holds no sign, point, exponent or radix
\* prefix and is not "Infinity": the decimal value of a digit string, else NaN
Number(s) ==
    IF IsDigits(s) THEN [nan |-> FALSE, value |-> DecimalValue(s)]
    ELSE [nan |-> TRUE, value |-> 0]

\* Number(x) || 0
NumberOrZero(s) == IF Number(s).nan THEN 0 ELSE Number(s).value

\* the characters the model's texts use, in code-unit order
CodeOrder ==
    "\t\n !\"#$%&()*+,-./0123456789:;<=>?@ABCDEFGHIJKLMNOPQRSTUVWXYZ[\\]_abcdefghijklmnopqrstuvwxyz{|}"

Code(c) == CHOOSE n \in 1..Len(CodeOrder) : SubSeq(CodeOrder, n, n) = c

\* -1, 0, 1: a before, equal to, after b in code-unit order
RECURSIVE CompareCodeUnits(_, _)
CompareCodeUnits(a, b) ==
    IF Len(a) = 0 THEN (IF Len(b) = 0 THEN 0 ELSE -1)
    ELSE IF Len(b) = 0 THEN 1
    ELSE IF Code(SubSeq(a, 1, 1)) < Code(SubSeq(b, 1, 1)) THEN -1
    ELSE IF Code(SubSeq(a, 1, 1)) > Code(SubSeq(b, 1, 1)) THEN 1
    ELSE CompareCodeUnits(SubSeq(a, 2, Len(a)), SubSeq(b, 2, Len(b)))

\* a.localeCompare(b) on strings of digits and lower-case letters, where the
\* collation order is the code-unit order
localeCompare(a, b) == CompareCodeUnits(a, b)

TitleOf(e) == IF Has(e, "title") THEN e.fields["title"] ELSE ""

\* the comparator with the years compared as strings, not as numbers
CompareEntriesByYearText(a, b) ==
    IF getYear(a) # getYear(b)
    THEN CompareCodeUnits(getYear(b), getYear(a))
    ELSE localeCompare(TitleOf(a), TitleOf(b))

\* the comparator of cleaned.sort: negative when a goes first
CompareEntries(a, b) ==
    LET ay == NumberOrZero(getYear(a))
        by == NumberOrZero(getYear(b))
    IN  IF ay # by THEN by - ay ELSE localeCompare(TitleOf(a), TitleOf(b))

\* Array.prototype.sort is stable: x goes behind every element that does not
\* compare greater than it
RECURSIVE InsertSorted(_, _)
InsertSorted(sorted, x) ==
    IF Len(sorted) = 0 THEN <<x>>
    ELSE IF CompareEntries(sorted[Len(sorted)], x) > 0
         THEN Append(InsertSorted(SubSeq(sorted, 1, Len(sorted) - 1), x), sorted[Len(sorted)])
         ELSE Append(sorted, x)

RECURSIVE SortEntries(_)
SortEntries(es) ==
    IF Len(es) = 0 THEN <<>>
    ELSE InsertSorted(SortEntries(SubSeq(es, 1, Len(es) - 1)), es[Len(es)])

cleanEntries(es) ==
    SortEntries([k \in 1..Len(es) |-> [es[k] EXCEPT !.fields = CleanFields(es[k].fields)]])

(***************************************************************************)
(* writeCleanBib                                                           *)
(***************************************************************************)
\* Object.keys(fields).sort(): ascending code-unit order
RECURSIVE SortedNames(_)
SortedNames(S) ==
    IF S = {} THEN <<>>
    ELSE LET m == CHOOSE x \in S : \A y \in S : CompareCodeUnits(x, y) <= 0
         IN  <<m>> \o SortedNames(S \ {m})

RECURSIVE FieldLines(_, _)
FieldLines(fields, names) ==
    IF Len(names) = 0 THEN ""
    ELSE "  " \o Head(names) \o " = {" \o fields[Head(names)] \o "},\n"
         \o FieldLines(fields, Tail(names))

\* one chunk: lines.join("\n")
Chunk(e) ==
    "@" \o e.type \o "{" \o e.key \o ",\n"
    \o FieldLines(e.fields, SortedNames(DOMAIN e.fields)) \o "}"

RECURSIVE JoinChunks(_)
JoinChunks(es) ==
    IF Len(es) = 0 THEN ""
    ELSE IF Len(es) = 1 THEN Chunk(es[1])
    ELSE Chunk(es[1]) \o "\n\n" \o JoinChunks(Tail(es))

\* the text writeCleanBib writes to BIB_PATH
CleanBibText(es) == JoinChunks(es) \o "\n"

(***************************************************************************)
(* The main sequence after parsing                                         *)
(***************************************************************************)
\* const cleaned = cleanEntries(parsed)
Clean ==
    /\ pc = "parsed"
    /\ cleaned' = cleanEntries(entries)
    /\ pc' = "cleaned"
    /\ UNCHANGED <<parserVars, bibFile, reread, linkVars, html, authorVars, fileVars>>

\* writeCleanBib(cleaned)
WriteCleanBib ==
    /\ pc = "cleaned"
    /\ bibFile' = CleanBibText(cleaned)
    /\ writes' = Append(writes, "systowe.bib")
    /\ pc' = "written"
    /\ UNCHANGED <<parserVars, cleaned, reread, linkVars, html, authorVars, indexFile>>

\* the next run's first two steps, on the file this run wrote
Reread ==
    /\ pc = "written"
    /\ reread' = cleanEntries(parseBib(bibFile))
    /\ pc' = "reread"
    /\ UNCHANGED <<parserVars, cleaned, bibFile, linkVars, html, authorVars, fileVars>>

NextClean == NextParse \/ Clean \/ WriteCleanBib \/ Reread

(***************************************************************************)
(* buildLinks, looksLikeLink, normalizeLinkTarget                          *)
(***************************************************************************)
\* some position of s holds p, letters compared without case
ContainsNoCase(s, p) ==
    \E k \in 1..(Len(s) - Len(p) + 1) : ToLowerCase(SubSeq(s, k, k + Len(p) - 1)) = p

StartsWithNoCase(s, p) == Len(s) >= Len(p) /\ ToLowerCase(SubSeq(s, 1, Len(p))) = p

\* /^https?:\/\//i, /^mailto:/i, /^\.{0,2}\//, /^\//
HasLinkPrefix(v) ==
    \/ StartsWithNoCase(v, "http://") \/ StartsWithNoCase(v, "https://")
    \/ StartsWithNoCase(v, "mailto:")
    \/ StartsWith(v, "/") \/ StartsWith(v, "./") \/ StartsWith(v, "../")

\* /\.pdf($|[?#])/i
HasPdfSuffix(v) ==
    \E k \in 1..(Len(v) - 3) :
        /\ ToLowerCase(SubSeq(v, k, k + 3)) = ".pdf"
        /\ (k + 3 = Len(v) \/ SubSeq(v, k + 4, k + 4) \in {"?", "#"})

looksLikeLink(value) == LET v == Trim(value) IN HasLinkPrefix(v) \/ HasPdfSuffix(v)

normalizeLinkTarget(value) ==
    LET v == Trim(value) IN IF HasLinkPrefix(v) THEN v ELSE "pdfs/" \o v

NoLinks == [links |-> <<>>, seen |-> {}]

\* addLink with the seen test lost
addLinkUnseen(st, label, href) ==
    IF href = "" THEN st
    ELSE [links |-> Append(st.links, [label |-> label, href |-> href]),
          seen  |-> st.seen \cup {href}]

addLink(st, label, href) ==
    IF href = "" \/ href \in st.seen THEN st
    ELSE [links |-> Append(st.links, [label |-> label, href |-> href]),
          seen  |-> st.seen \cup {href}]

\* addAssetLink that takes the first present field, link or not
RECURSIVE addAssetLinkFirstPresent(_, _, _, _)
addAssetLinkFirstPresent(st, e, label, fieldNames) ==
    IF Len(fieldNames) = 0 THEN st
    ELSE IF ~Has(e, Head(fieldNames))
         THEN addAssetLinkFirstPresent(st, e, label, Tail(fieldNames))
    ELSE addLink(st, label, normalizeLinkTarget(e.fields[Head(fieldNames)]))

\* addAssetLink without the return after addLink: every present field that
\* looks like a link is added
RECURSIVE addAssetLinkNoReturn(_, _, _, _)
addAssetLinkNoReturn(st, e, label, fieldNames) ==
    IF Len(fieldNames) = 0 THEN st
    ELSE IF ~Has(e, Head(fieldNames)) \/ ~looksLikeLink(e.fields[Head(fieldNames)])
         THEN addAssetLinkNoReturn(st, e, label, Tail(fieldNames))
    ELSE addAssetLinkNoReturn(addLink(st, label, normalizeLinkTarget(e.fields[Head(fieldNames)])),
                              e, label, Tail(fieldNames))

\* the loop of addAssetLink: the first field that is present and looks like
\* a link is added, and the loop returns
RECURSIVE addAssetLink(_, _, _, _)
addAssetLink(st, e, label, fieldNames) ==
    IF Len(fieldNames) = 0 THEN st
    ELSE IF ~Has(e, Head(fieldNames)) \/ ~looksLikeLink(e.fields[Head(fieldNames)])
         THEN addAssetLink(st, e, label, Tail(fieldNames))
    ELSE addLink(st, label, normalizeLinkTarget(e.fields[Head(fieldNames)]))

FinalDraftFields == <<"final_draft", "final_draft_url", "paper_pdf", "paper_url", "pdf">>
ThesisPresentationFields ==
    <<"presentation_url", "presentation_link", "presentation_pdf",
      "slides_url", "slides_link", "slides_pdf">>
AbstractFields == <<"abstract_url", "abstract_link", "abstract_pdf", "abstract">>
TalkPresentationFields ==
    <<"presentation_url", "presentation_link", "presentation_pdf", "talk_url", "talk_pdf">>
PosterFields == <<"poster_url", "poster_link", "poster_pdf", "poster">>
SlidesFields == <<"slides_url", "slides_link", "slides_pdf", "slides">>

TypedEntryTypes == {"article", "phdthesis", "mastersthesis", "inproceedings", "unpublished"}

\* the addAssetLink calls of each typed branch, in order
AssetRules(type) ==
    CASE type = "article" ->
           << [label |-> "Final Draft", fields |-> FinalDraftFields] >>
      [] type \in {"phdthesis", "mastersthesis"} ->
           << [label |-> "Final Draft", fields |-> FinalDraftFields],
              [label |-> "Presentation", fields |-> ThesisPresentationFields] >>
      [] type = "inproceedings" ->
           << [label |-> "Abstract", fields |-> AbstractFields],
              [label |-> "Presentation", fields |-> TalkPresentationFields],
              [label |-> "Poster", fields |-> PosterFields] >>
      [] type = "unpublished" ->
           << [label |-> "Slides", fields |-> SlidesFields] >>

\* the label of the link to pdfs/<key>.pdf a typed branch adds when empty
DefaultLabel(type) ==
    CASE type \in {"article", "phdthesis", "mastersthesis"} -> "Final Draft"
      [] type = "inproceedings" -> "Abstract"
      [] type = "unpublished" -> "Slides"

DefaultHref(e) == "pdfs/" \o e.key \o ".pdf"

RECURSIVE ApplyAssetRules(_, _, _)
ApplyAssetRules(st, e, rules) ==
    IF Len(rules) = 0 THEN st
    ELSE ApplyAssetRules(addAssetLink(st, e, Head(rules).label, Head(rules).fields),
                         e, Tail(rules))

\* the branch of buildLinks for the other entry types
FallbackLinks(e, exists) ==
    LET doi      == IF Has(e, "doi") THEN e.fields["doi"] ELSE ""
        url      == IF Has(e, "url") THEN e.fields["url"] ELSE ""
        doiHref  == IF doi # "" THEN "https://doi.org/" \o doi ELSE ""
        isDoiUrl == IF url # "" THEN ContainsNoCase(url, "doi.org/") ELSE FALSE
        s1 == IF url # "" THEN addLink(NoLinks, IF isDoiUrl THEN "DOI" ELSE "Link", url)
              ELSE NoLinks
        s2 == IF url # "" /\ doiHref # "" /\ ~isDoiUrl THEN addLink(s1, "DOI", doiHref)
              ELSE s1
        s3 == IF exists THEN addLink(s2, "PDF", DefaultHref(e)) ELSE s2
    IN  s3.links

buildLinks(e, exists) ==
    IF e.type \in TypedEntryTypes
    THEN LET st == ApplyAssetRules(NoLinks, e, AssetRules(e.type))
         IN  IF Len(st.links) = 0 /\ exists
             THEN addLink(st, DefaultLabel(e.type), DefaultHref(e)).links
             ELSE st.links
    ELSE FallbackLinks(e, exists)

NoLinkRun == entry = NoRecord /\ pdfExists = FALSE /\ links = <<>>

NoRender == html = <<>>

NoAuthorRun == authorField = "" /\ authors = ""

NoFiles == indexFile = <<>> /\ writes = <<>>

\* const links = buildLinks(entry)
BuildLinks ==
    /\ pc = "entry"
    /\ links' = buildLinks(entry, pdfExists)
    /\ pc' = "linked"
    /\ UNCHANGED <<parserVars, mainVars, entry, pdfExists, html, authorVars, fileVars>>

NextLinks == BuildLinks

(***************************************************************************)
(* generatePublicationHtml                                                 *)
(***************************************************************************)
CATEGORY_ORDER == <<"Publications", "Proceedings", "Patent Applications", "Talks", "Other">>

TYPE_TO_CATEGORY ==
    [t \in {"article", "inproceedings", "patent", "phdthesis", "mastersthesis", "unpublished"} |->
        CASE t = "article" -> "Publications"
          [] t = "inproceedings" -> "Proceedings"
          [] t = "patent" -> "Patent Applications"
          [] t = "phdthesis" -> "Publications"
          [] t = "mastersthesis" -> "Publications"
          [] t = "unpublished" -> "Talks"]

\* Object.prototype.constructor, which every object literal inherits
ObjectConstructor == "function Object() { [native code] }"

\* TYPE_TO_CATEGORY[type] with "Other" for every type, inherited or not
CategoryOfOwn(type) ==
    IF type \in DOMAIN TYPE_TO_CATEGORY THEN TYPE_TO_CATEGORY[type] ELSE "Other"

\* TYPE_TO_CATEGORY[entry.type] || "Other": the property lookup finds the
\* table's own keys and, for a type made of lower-case letters, the one
\* inherited property of that shape, "constructor" (a function, truthy)
CategoryOf(type) ==
    IF type \in DOMAIN TYPE_TO_CATEGORY THEN TYPE_TO_CATEGORY[type]
    ELSE IF type = "constructor" THEN ObjectConstructor
    ELSE "Other"

\* [...byYear.keys()]: the years in the order of their first entry
RECURSIVE YearKeys(_, _)
YearKeys(es, acc) ==
    IF Len(es) = 0 THEN acc
    ELSE YearKeys(Tail(es),
                  IF \E k \in 1..Len(acc) : acc[k] = getYear(Head(es))
                  THEN acc ELSE Append(acc, getYear(Head(es))))

\* the years compared as strings, not as numbers
CompareYearsText(a, b) == CompareCodeUnits(b, a)

\* (a, b) => Number(b) - Number(a); a NaN result counts as 0 in sort
CompareYears(a, b) ==
    IF Number(a).nan \/ Number(b).nan THEN 0 ELSE Number(b).value - Number(a).value

RECURSIVE InsertYear(_, _)
InsertYear(sorted, y) ==
    IF Len(sorted) = 0 THEN <<y>>
    ELSE IF CompareYears(sorted[Len(sorted)], y) > 0
         THEN Append(InsertYear(SubSeq(sorted, 1, Len(sorted) - 1), y), sorted[Len(sorted)])
         ELSE Append(sorted, y)

RECURSIVE SortYears(_)
SortYears(ys) ==
    IF Len(ys) = 0 THEN <<>>
    ELSE InsertYear(SortYears(SubSeq(ys, 1, Len(ys) - 1)), ys[Len(ys)])

\* byYear.get(year).get(category): the entries in input order
Bucket(es, year, category) ==
    SelectSeq(es, LAMBDA e : getYear(e) = year /\ CategoryOf(e.type) = category)

\* entriesForCategory.sort by title
RECURSIVE InsertByTitle(_, _)
InsertByTitle(sorted, x) ==
    IF Len(sorted) = 0 THEN <<x>>
    ELSE IF localeCompare(TitleOf(sorted[Len(sorted)]), TitleOf(x)) > 0
         THEN Append(InsertByTitle(SubSeq(sorted, 1, Len(sorted) - 1), x), sorted[Len(sorted)])
         ELSE Append(sorted, x)

RECURSIVE SortByTitle(_)
SortByTitle(es) ==
    IF Len(es) = 0 THEN <<>>
    ELSE InsertByTitle(SortByTitle(SubSeq(es, 1, Len(es) - 1)), es[Len(es)])

\* the <ul class="project_blurb"> block of one entry: its title and links
\* (the author, venue and escaped text of the block are not part of it here)
EntryBlock(e, exists) ==
    [kind |-> "entry", key |-> e.key,
     text |-> IF Has(e, "title") THEN e.fields["title"] ELSE e.key,
     links |-> buildLinks(e, exists)]

RECURSIVE EntryBlocks(_, _)
EntryBlocks(es, exists) ==
    IF Len(es) = 0 THEN <<>>
    ELSE <<EntryBlock(Head(es), exists)>> \o EntryBlocks(Tail(es), exists)

\* the loop over CATEGORY_ORDER for one year, from category k on
RECURSIVE CategoryLines(_, _, _, _)
CategoryLines(es, year, k, exists) ==
    IF k > Len(CATEGORY_ORDER) THEN <<>>
    ELSE LET b == Bucket(es, year, CATEGORY_ORDER[k]) IN
         (IF Len(b) = 0 THEN <<>>
          ELSE << [kind |-> "category", key |-> "", text |-> CATEGORY_ORDER[k], links |-> <<>>] >>
               \o EntryBlocks(SortByTitle(b), exists))
         \o CategoryLines(es, year, k + 1, exists)

\* the loop over the sorted years
RECURSIVE YearLines(_, _, _)
YearLines(es, years, exists) ==
    IF Len(years) = 0 THEN <<>>
    ELSE << [kind |-> "year", key |-> "", text |-> Head(years), links |-> <<>>] >>
         \o CategoryLines(es, Head(years), 1, exists)
         \o YearLines(es, Tail(years), exists)

generatePublicationHtml(es, exists) ==
    YearLines(es, SortYears(YearKeys(es, <<>>)), exists)

\* const publicationsHtml = generatePublicationHtml(cleaned)
GenerateHtml ==
    /\ pc = "written"
    /\ html' = generatePublicationHtml(cleaned, pdfExists)
    /\ pc' = "rendered"
    /\ UNCHANGED <<parserVars, mainVars, linkVars, authorVars, fileVars>>

NextHtml == Clean \/ WriteCleanBib \/ GenerateHtml

(***************************************************************************)
(* escapeHtml, normalizeAuthorList                                         *)
(***************************************************************************)
escapeHtml(s) ==
    ReplaceAll(ReplaceAll(ReplaceAll(ReplaceAll(s, "&", "&amp;"), "<", "&lt;"), ">", "&gt;"),
               "\"", "&quot;")

\* the end of the match of /\s+and\s+/i that starts at p, or -1
AndMatchEnd(s, p) ==
    LET q == SkipIn(s, p, WhiteSpace) IN
    IF /\ q > p
       /\ q + 3 <= Len(s)
       /\ ToLowerCase(Slice(s, q, q + 3)) = "and"
       /\ At(s, q + 3) \in WhiteSpace
    THEN SkipIn(s, q + 3, WhiteSpace)
    ELSE -1

\* authorField.split(/\s+and\s+/i): p is the search position, start the
\* start of the piece being read
RECURSIVE SplitOnAnd(_, _, _)
SplitOnAnd(s, p, start) ==
    IF p >= Len(s) THEN << Slice(s, start, Len(s)) >>
    ELSE LET e == AndMatchEnd(s, p) IN
         IF e >= 0 THEN << Slice(s, start, p) >> \o SplitOnAnd(s, e, e)
         ELSE SplitOnAnd(s, p + 1, start)

\* person.split(",")
RECURSIVE SplitOnComma(_)
SplitOnComma(s) ==
    LET k == IndexOf(s, ",", 0) IN
    IF k = -1 THEN << s >>
    ELSE << Slice(s, 0, k) >> \o SplitOnComma(Slice(s, k + 1, Len(s)))

\* person.split(/\s+/).filter(Boolean)
RECURSIVE Tokens(_, _)
Tokens(s, k) ==
    LET a == SkipIn(s, k, WhiteSpace)
        b == SkipNotIn(s, a, WhiteSpace)
    IN  IF a >= Len(s) THEN <<>> ELSE << Slice(s, a, b) >> \o Tokens(s, b)

\* xs.join(sep)
RECURSIVE Join(_, _)
Join(xs, sep) ==
    IF Len(xs) = 0 THEN ""
    ELSE IF Len(xs) = 1 THEN xs[1]
    ELSE xs[1] \o sep \o Join(Tail(xs), sep)

\* xs.map((s) => s.trim())
TrimAll(xs) == [k \in 1..Len(xs) |-> Trim(xs[k])]

\* the name parts with the two comma-separated parts taken in the order
\* they are written
PersonNameUnswapped(person) ==
    IF IndexOf(person, ",", 0) # -1
    THEN LET parts == TrimAll(SplitOnComma(person))
         IN  [first |-> parts[1], last |-> parts[2]]
    ELSE LET tokens == Tokens(person, 0) IN
         IF Len(tokens) > 1
         THEN [first |-> Join(SubSeq(tokens, 1, Len(tokens) - 1), " "),
               last |-> tokens[Len(tokens)]]
         ELSE [first |-> person, last |-> ""]

\* first and last of one person
PersonName(person) ==
    IF IndexOf(person, ",", 0) # -1
    THEN LET parts == TrimAll(SplitOnComma(person))
         IN  [first |-> parts[2], last |-> parts[1]]
    ELSE LET tokens == Tokens(person, 0) IN
         IF Len(tokens) > 1
         THEN [first |-> Join(SubSeq(tokens, 1, Len(tokens) - 1), " "),
               last |-> tokens[Len(tokens)]]
         ELSE [first |-> person, last |-> ""]

\* s.replace(/[^\p{L}\p{N}.-]/gu, "")
RECURSIVE KeepNameChars(_)
KeepNameChars(s) ==
    IF Len(s) = 0 THEN ""
    ELSE (IF SubSeq(s, 1, 1) \in Letters \cup CharsOf(DigitChars) \cup {".", "-"}
          THEN SubSeq(s, 1, 1) ELSE "")
         \o KeepNameChars(SubSeq(s, 2, Len(s)))

isSymonStowe(first, last) ==
    /\ ToLowerCase(KeepNameChars(last)) = "stowe"
    /\ \/ ContainsNoCase(first, "symon")
       \/ ToLowerCase(Trim(first)) = "s"
       \/ StartsWithNoCase(Trim(first), "s.")

\* the callback of people.map
FormatPerson(person) ==
    LET name == PersonName(person)
        trimmed == Trim(name.first \o " " \o name.last)
        displayName == IF trimmed # "" THEN trimmed ELSE person
        safeName == escapeHtml(displayName)
    IN  IF isSymonStowe(name.first, name.last)
        THEN "<strong>" \o safeName \o "</strong>"
        ELSE safeName

normalizeAuthorList(field) ==
    IF field = "" THEN ""
    ELSE LET people == SelectSeq(TrimAll(SplitOnAnd(field, 0, 0)), LAMBDA q : q # "")
         IN  Join([k \in 1..Len(people) |-> FormatPerson(people[k])], ", ")

\* const authors = normalizeAuthorList(entry.fields.author)
NormalizeAuthorList ==
    /\ pc = "author"
    /\ authors' = normalizeAuthorList(authorField)
    /\ pc' = "authors"
    /\ UNCHANGED <<parserVars, mainVars, linkVars, html, authorField, fileVars>>

NextAuthors == NormalizeAuthorList

(***************************************************************************)
(* updateIndex and the main sequence                                       *)
(***************************************************************************)
\* index.html is a sequence of segments: the markers, the last-updated
\* sentence, and other markup. Every segment but the sentence starts with
\* "<", so that no marker arises across two segments.
startMarker == "<!-- PUBS:START -->"
endMarker == "<!-- PUBS:END -->"
lastUpdatedMarker == "<!-- LAST_UPDATED -->"

\* `${startMarker}\n${publicationsHtml}\n        ${endMarker}` without its
\* two markers: the segment that holds the rendered publications
PublicationsBlock == "\n${publicationsHtml}\n        "

\* `Site last updated on: ${buildDate} (UTC)`
updatedText == "Site last updated on: ${buildDate} (UTC)"

Includes(index, segment) == \E k \in 1..Len(index) : index[k] = segment

FirstIndex(index, S, from) ==
    IF \E k \in from..Len(index) : index[k] \in S
    THEN CHOOSE k \in from..Len(index) :
            index[k] \in S /\ \A j \in from..(k - 1) : index[j] \notin S
    ELSE 0

\* index.replace(new RegExp(`${startMarker}[\\s\\S]*?${endMarker}`), ...):
\* the first start marker and the first end marker after it
ReplacePublications(index) ==
    LET a == FirstIndex(index, {startMarker}, 1)
        b == IF a = 0 THEN 0 ELSE FirstIndex(index, {endMarker}, a + 1)
    IN  IF b = 0 THEN index
        ELSE SubSeq(index, 1, a) \o << PublicationsBlock >> \o SubSeq(index, b, Len(index))

\* /Site last updated on:[^<]*/
IsUpdatedSentence(segment) == StartsWith(segment, "Site last updated on:")

\* updated.replace(lastUpdatedMarker, updatedText): the first occurrence
ReplaceFirstMarker(index) ==
    LET k == FirstIndex(index, {lastUpdatedMarker}, 1)
    IN  [index EXCEPT ![k] = updatedText]

\* updated.replace(/Site last updated on:[^<]*/g, updatedText)
ReplaceSentences(index) ==
    [k \in 1..Len(index) |-> IF IsUpdatedSentence(index[k]) THEN updatedText ELSE index[k]]

\* the result of updateIndex: the error it throws, or the text it writes
updateIndex(index) ==
    IF ~Includes(index, startMarker) \/ ~Includes(index, endMarker)
    THEN [error |-> "Missing publication markers in index.html", updated |-> index]
    ELSE LET updated == ReplacePublications(index) IN
         IF Includes(updated, lastUpdatedMarker)
         THEN [error |-> "", updated |-> ReplaceFirstMarker(updated)]
         ELSE IF \E k \in 1..Len(updated) : IsUpdatedSentence(updated[k])
         THEN [error |-> "", updated |-> ReplaceSentences(updated)]
         ELSE [error |-> "Missing last-updated marker in index.html", updated |-> index]

\* updateIndex(publicationsHtml)
UpdateIndex ==
    /\ pc = "rendered"
    /\ LET r == updateIndex(indexFile) IN
       IF r.error # ""
       THEN /\ pc' = "error"
            /\ UNCHANGED <<indexFile, writes>>
       ELSE /\ indexFile' = r.updated
            /\ writes' = Append(writes, "index.html")
            /\ pc' = "done"
    /\ UNCHANGED <<parserVars, mainVars, linkVars, html, authorVars>>

NextRun == NextParse \/ Clean \/ WriteCleanBib \/ GenerateHtml \/ UpdateIndex

(***************************************************************************)
(* Inputs of the parser                                                    *)
(***************************************************************************)
MaxTailLen == 3

TextAlphabet == {"@", "{", "}", ",", "=", "\"", "\\", " ", "a"}

RECURSIVE StringsUpTo(_, _)
StringsUpTo(A, n) ==
    IF n = 0 THEN {""}
    ELSE LET S == StringsUpTo(A, n - 1)
         IN  S \cup { s \o c : s \in { t \in S : Len(t) = n - 1 }, c \in A }

\* texts: a record opening followed by every short string of the alphabet
TextHeads == {"", "@a{k,", "@a{k,t="}
Texts == { h \o t : h \in TextHeads, t \in StringsUpTo(TextAlphabet, MaxTailLen) }

InitParse ==
    /\ tex \in Texts
    /\ pc = "record"
    /\ i = 0
    /\ entries = <<>>
    /\ cur = NoRecord
    /\ read = NoRead
    /\ prev = NoStep
    /\ recs = <<>>
    /\ cleaned = <<>> /\ bibFile = tex /\ reread = <<>>
    /\ NoLinkRun /\ NoRender /\ NoAuthorRun /\ NoFiles

SpecParse == InitParse /\ [][NextParse]_vars

(***************************************************************************)
(* Texts assembled from whole records (SpecRecords)                        *)
(***************************************************************************)
MaxRecs == 3

\* kind: "ok" (well formed), "nobrace" (the type is not followed by "{"),
\* "nocomma" (the key is not followed by a comma), "unclosed" (a brace value
\* never closed); entry: what a well-formed record denotes
RecordTexts == {
    [text |-> "@A{k,t={x}}", kind |-> "ok",
     entry |-> [type |-> "a", key |-> "k", fields |-> [n \in {"t"} |-> "{x}"]]],
    [text |-> "@b{j,}", kind |-> "ok",
     entry |-> [type |-> "b", key |-> "j", fields |-> NoFields]],
    [text |-> "@c k,t={x}}", kind |-> "nobrace", entry |-> NoRecord],
    [text |-> "@c", kind |-> "nobrace", entry |-> NoRecord],
    [text |-> "@c{k}", kind |-> "nocomma", entry |-> NoRecord],
    [text |-> "@c{k t={x}}", kind |-> "nocomma", entry |-> NoRecord],
    [text |-> "@d{m,t={x", kind |-> "unclosed", entry |-> NoRecord] }

RECURSIVE SeqsUpTo(_, _)
SeqsUpTo(S, n) ==
    IF n = 0 THEN {<<>>}
    ELSE LET P == SeqsUpTo(S, n - 1)
         IN  P \cup { Append(q, x) : q \in { t \in P : Len(t) = n - 1 }, x \in S }

\* the records one per line
RECURSIVE JoinRecords(_)
JoinRecords(rs) ==
    IF Len(rs) = 0 THEN "" ELSE Head(rs).text \o "\n" \o JoinRecords(Tail(rs))

InitRecords ==
    /\ recs \in SeqsUpTo(RecordTexts, MaxRecs) \ {<<>>}
    /\ tex = JoinRecords(recs)
    /\ pc = "record"
    /\ i = 0
    /\ entries = <<>>
    /\ cur = NoRecord
    /\ read = NoRead
    /\ prev = NoStep
    /\ cleaned = <<>> /\ bibFile = tex /\ reread = <<>>
    /\ NoLinkRun /\ NoRender /\ NoAuthorRun /\ NoFiles

SpecRecords == InitRecords /\ [][NextParse]_vars

(***************************************************************************)
(* C5                                                                      *)
(***************************************************************************)
CountIn(s, a, b, c) == Cardinality({ k \in a..b : At(s, k) = c })

\* the brace opened at start is closed: the depth returns to 0 somewhere
BraceClosed(s, start) ==
    \E k \in start..(Len(s) - 1) :
        CountIn(s, start, k, "{") = CountIn(s, start, k, "}")

\* the quote opened at start is closed by a quote no backslash precedes
QuoteClosed(s, start) ==
    \E k \in (start + 1)..(Len(s) - 1) : At(s, k) = "\"" /\ At(s, k - 1) # "\\"

UnclosedBraceRead ==
    read # NoRead /\ At(tex, read.start) = "{" /\ ~BraceClosed(tex, read.start)

UnclosedQuoteRead ==
    read # NoRead /\ At(tex, read.start) = "\"" /\ ~QuoteClosed(tex, read.start)

\* a value never closed is the rest of the text, and the cursor ends at its end
UnclosedReadsToEnd ==
    /\ UnclosedBraceRead =>
         read.value = Slice(tex, read.start, Len(tex)) /\ read.next = Len(tex)
    /\ UnclosedQuoteRead =>
         read.value = Slice(tex, read.start + 1, Len(tex)) /\ read.next = Len(tex)

\* C5 (as stated): parseBib and readBibValue terminate without an error, the
\* cursor strictly advances on EVERY iteration of the record loop and of the
\* field loop, and an unclosed value reads to the end of the input.
C5_AdvancesEveryIteration ==
    prev.op \in {"record", "field"} => i > prev.i

\* C5 (amended): every step of the parser brings it nearer to its return
\* (the measure strictly decreases and is never negative, and one of the
\* loop steps is enabled in every position but "parsed"), the cursor stays inside the text, every iteration of the record loop and of
\* the field loop either strictly advances the cursor or leaves its loop,
\* and an unclosed brace or quote value is the text to the end of the input
\* with next equal to the text length.
C5_TerminatesAdvancing ==
    /\ i >= 0 /\ i <= Len(tex)
    /\ Measure >= 0
    /\ prev # NoStep => Measure < prev.m
    /\ pc \in {"record", "field", "parsed"}
    /\ prev.op = "record" => (i > prev.i \/ pc = "parsed")
    /\ prev.op = "field" => (i > prev.i \/ pc = "record")
    /\ UnclosedReadsToEnd

C5_Witness ==
    /\ pc = "parsed"
    /\ UnclosedBraceRead
    /\ read.next = Len(tex)
    /\ Len(entries) = 1

(***************************************************************************)
(* C6                                                                      *)
(***************************************************************************)
RECURSIVE WellFormedEntries(_)
WellFormedEntries(rs) ==
    IF Len(rs) = 0 THEN <<>>
    ELSE IF Head(rs).kind = "ok"
         THEN <<Head(rs).entry>> \o WellFormedEntries(Tail(rs))
         ELSE WellFormedEntries(Tail(rs))

HasKind(rs, kind) == \E k \in 1..Len(rs) : rs[k].kind = kind

\* C6: a malformed record (no "{" after the type, or no comma after the key)
\* yields no entry, and every well-formed record after it is returned as its
\* own entry with its own type, key and fields.
C6_MalformedSkipped ==
    (/\ pc = "parsed" /\ recs # <<>> /\ ~HasKind(recs, "unclosed")
     /\ (HasKind(recs, "nobrace") \/ HasKind(recs, "nocomma")))
        => entries = WellFormedEntries(recs)

\* the half of C6 the code keeps: records malformed by a missing "{" only
C6_MissingBraceSkipped ==
    (/\ pc = "parsed" /\ recs # <<>> /\ ~HasKind(recs, "unclosed")
     /\ ~HasKind(recs, "nocomma"))
        => entries = WellFormedEntries(recs)

(***************************************************************************)
(* Texts with one field value of every short shape (SpecClean)             *)
(***************************************************************************)
MaxValueLen == 3

ValueAlphabet == {"{", "}", " ", "\n", "\\", "&", ",", "a"}

ValueHeads == {"@a{k,t=", "@a{k,File="}

ValueTexts ==
    { h \o t : h \in ValueHeads, t \in StringsUpTo(ValueAlphabet, MaxValueLen) }

InitClean ==
    /\ tex \in ValueTexts
    /\ pc = "record"
    /\ i = 0
    /\ entries = <<>>
    /\ cur = NoRecord
    /\ read = NoRead
    /\ prev = NoStep
    /\ recs = <<>>
    /\ cleaned = <<>> /\ bibFile = tex /\ reread = <<>>
    /\ NoLinkRun /\ NoRender /\ NoAuthorRun /\ NoFiles

SpecClean == InitClean /\ [][NextClean]_vars

(***************************************************************************)
(* C1                                                                      *)
(***************************************************************************)
\* C1: serializing a normalized entry set, parsing the text again and
\* normalizing again yields the same entry set.
C1_RoundTrip ==
    pc = "reread" => reread = cleaned

(***************************************************************************)
(* C9                                                                      *)
(***************************************************************************)
NormalizedValue(v) ==
    /\ v # ""
    /\ \A k \in 1..Len(v) : SubSeq(v, k, k) \notin {"{", "}", "\n"}
    /\ SubSeq(v, 1, 1) \notin WhiteSpace
    /\ SubSeq(v, Len(v), Len(v)) \notin WhiteSpace
    /\ \A k \in 1..(Len(v) - 1) :
         ~(SubSeq(v, k, k) \in WhiteSpace /\ SubSeq(v, k + 1, k + 1) \in WhiteSpace)

\* C9: after cleanEntries no field is named in the denylist and every value
\* is a non-empty single-line string without braces, without leading or
\* trailing whitespace and without a run of two whitespace characters.
C9_NormalizedEntries ==
    pc \in {"cleaned", "written", "reread"} =>
        \A k \in 1..Len(cleaned) : \A n \in DOMAIN cleaned[k].fields :
            /\ n \notin DROP_FIELDS
            /\ NormalizedValue(cleaned[k].fields[n])

C9_Witness ==
    /\ pc = "cleaned"
    /\ Len(cleaned) = 1
    /\ "t" \in DOMAIN entries[1].fields
    /\ entries[1].fields["t"] = "{ a"
    /\ cleaned[1].fields["t"] = "a"

(***************************************************************************)
(* Entry lists with years, dates and titles (SpecSort)                     *)
(***************************************************************************)
MaxEntries == 3

\* a year field, or a date field alone, or neither
YearChoices == {
    NoFields,
    [n \in {"year"} |-> "9"],
    [n \in {"year"} |-> "10"],
    [n \in {"year"} |-> "t"],
    [n \in {"date"} |-> "0010-1"] }

TitleChoices == { NoFields, [n \in {"title"} |-> "a"], [n \in {"title"} |-> "b"] }

Merge(f, g) == [n \in DOMAIN f \cup DOMAIN g |-> IF n \in DOMAIN f THEN f[n] ELSE g[n]]

FieldChoices == { Merge(y, t) : y \in YearChoices, t \in TitleChoices }

\* the k-th record of the file has the key k<k>
KeyNames == <<"k1", "k2", "k3", "k4", "k5">>

EntryLists ==
    UNION { { [k \in 1..n |-> [type |-> "article", key |-> KeyNames[k], fields |-> f[k]]]
              : f \in [1..n -> FieldChoices] } : n \in 1..MaxEntries }

InitSort ==
    /\ entries \in EntryLists
    /\ pc = "parsed"
    /\ tex = "" /\ i = 0 /\ cur = NoRecord /\ read = NoRead /\ prev = NoStep
    /\ recs = <<>>
    /\ cleaned = <<>> /\ bibFile = "" /\ reread = <<>>
    /\ NoLinkRun /\ NoRender /\ NoAuthorRun /\ NoFiles

NextSort == Clean

SpecSort == InitSort /\ [][NextSort]_vars

(***************************************************************************)
(* C2                                                                      *)
(***************************************************************************)
\* the year of the claim: fields.year, else the first 4 characters of
\* fields.date, else "Unknown"; as a number, 0 when it is not one
YearNumber(e) ==
    LET y == IF "year" \in DOMAIN e.fields THEN e.fields["year"]
             ELSE IF "date" \in DOMAIN e.fields THEN SubSeq(e.fields["date"], 1, 4)
             ELSE "Unknown"
    IN  IF IsDigits(y) THEN DecimalValue(y) ELSE 0

TitleText(e) == IF "title" \in DOMAIN e.fields THEN e.fields["title"] ELSE ""

\* where the entry stood in the list cleanEntries was given
InputPosition(e) == CHOOSE k \in 1..Len(entries) : entries[k].key = e.key

\* C2: cleanEntries returns the entries by year descending, then by title
\* ascending, and entries equal in year and title in their original order.
C2_SortedStable ==
    pc = "cleaned" =>
        /\ Len(cleaned) = Len(entries)
        /\ \A k \in 1..Len(entries) : \E p \in 1..Len(cleaned) : cleaned[p] = entries[k]
        /\ \A p, q \in 1..Len(cleaned) : p < q =>
             LET a == cleaned[p]
                 b == cleaned[q]
             IN  /\ YearNumber(a) >= YearNumber(b)
                 /\ YearNumber(a) = YearNumber(b) =>
                        CompareCodeUnits(TitleText(a), TitleText(b)) <= 0
                 /\ (YearNumber(a) = YearNumber(b) /\ TitleText(a) = TitleText(b)) =>
                        InputPosition(a) < InputPosition(b)

\* three entries that come out in another order than they went in, two of
\* them equal in year and title
C2_Witness ==
    /\ pc = "cleaned"
    /\ Len(cleaned) = 3
    /\ cleaned # entries
    /\ YearNumber(cleaned[1]) = 10 /\ YearNumber(cleaned[3]) = 9
    /\ \E p \in 1..2 : /\ YearNumber(cleaned[p]) = YearNumber(cleaned[p + 1])
                       /\ TitleText(cleaned[p]) = TitleText(cleaned[p + 1])

(***************************************************************************)
(* Entries with link fields (SpecLinks)                                    *)
(***************************************************************************)
MaxLinkFields == 2

LinkFieldNames ==
    { FinalDraftFields[k] : k \in 1..Len(FinalDraftFields) }
    \cup { ThesisPresentationFields[k] : k \in 1..Len(ThesisPresentationFields) }
    \cup { AbstractFields[k] : k \in 1..Len(AbstractFields) }
    \cup { TalkPresentationFields[k] : k \in 1..Len(TalkPresentationFields) }
    \cup { PosterFields[k] : k \in 1..Len(PosterFields) }
    \cup { SlidesFields[k] : k \in 1..Len(SlidesFields) }
    \cup {"doi", "url"}

\* a URL, a bare file name, a word that is no link; for url also a DOI URL
\* and the default asset path of the entry
LinkValues(name) ==
    CASE name = "doi" -> {"10.1"}
      [] name = "url" -> {"https://x.org/a", "https://doi.org/10.1", "pdfs/k.pdf"}
      [] OTHER -> {"https://x.org/a", "a.pdf", "talk"}

RECURSIVE FieldMapsUpTo(_)
FieldMapsUpTo(n) ==
    IF n = 0 THEN {NoFields}
    ELSE LET P == FieldMapsUpTo(n - 1)
         IN  P \cup UNION { { SetField(f, name, v) :
                                f \in { g \in P : Cardinality(DOMAIN g) = n - 1 },
                                v \in LinkValues(name) } : name \in LinkFieldNames }

LinkFieldMaps == FieldMapsUpTo(MaxLinkFields)

LinkEntryTypes == TypedEntryTypes \cup {"misc"}

InitLinks ==
    /\ entry \in { [type |-> t, key |-> "k", fields |-> f] :
                     t \in LinkEntryTypes, f \in LinkFieldMaps }
    /\ pdfExists \in BOOLEAN
    /\ links = <<>>
    /\ pc = "entry"
    /\ tex = "" /\ i = 0 /\ entries = <<>> /\ cur = NoRecord /\ read = NoRead
    /\ prev = NoStep /\ recs = <<>>
    /\ cleaned = <<>> /\ bibFile = "" /\ reread = <<>>
    /\ NoRender /\ NoAuthorRun /\ NoFiles

SpecLinks == InitLinks /\ [][NextLinks]_vars

(***************************************************************************)
(* C3                                                                      *)
(***************************************************************************)
\* C3: buildLinks never returns two links with the same href.
C3_DistinctHrefs ==
    pc = "linked" =>
        \A p, q \in 1..Len(links) : p # q => links[p].href # links[q].href

\* a thesis whose final draft and presentation are the same file: one link
C3_Witness ==
    /\ pc = "linked"
    /\ entry.type = "phdthesis"
    /\ DOMAIN entry.fields = {"final_draft", "presentation_pdf"}
    /\ entry.fields["final_draft"] = "a.pdf"
    /\ entry.fields["presentation_pdf"] = "a.pdf"
    /\ links = << [label |-> "Final Draft", href |-> "pdfs/a.pdf"] >>

(***************************************************************************)
(* C7                                                                      *)
(***************************************************************************)
Present(e, fieldNames) ==
    SelectSeq(fieldNames, LAMBDA n : n \in DOMAIN e.fields /\ e.fields[n] # "")

PresentLinks(e, fieldNames) ==
    SelectSeq(Present(e, fieldNames), LAMBDA n : looksLikeLink(e.fields[n]))

\* the links the typed branch built from fields: all but the default link
\* to pdfs/<key>.pdf, which is added only to an empty list
FieldLinks ==
    IF links = << [label |-> DefaultLabel(entry.type), href |-> DefaultHref(entry)] >>
       /\ \A r \in 1..Len(AssetRules(entry.type)) :
            PresentLinks(entry, AssetRules(entry.type)[r].fields) = <<>>
    THEN <<>> ELSE links

\* C7 (as stated): when two or more candidate fields of a label are present,
\* the label's link is built from the highest-priority present field.
C7_FirstPresentWins ==
    (pc = "linked" /\ entry.type \in TypedEntryTypes) =>
        \A r \in 1..Len(AssetRules(entry.type)) :
            LET rule == AssetRules(entry.type)[r]
                have == Present(entry, rule.fields)
            IN  Len(have) >= 2 =>
                  \A k \in 1..Len(FieldLinks) :
                      FieldLinks[k].label = rule.label =>
                          FieldLinks[k].href = normalizeLinkTarget(entry.fields[have[1]])

\* C7 (amended): when two or more candidate fields of a label are present,
\* the label's link is built from the highest-priority present field whose
\* value looks like a link; present fields that do not look like a link are
\* passed over, and when none does no link is built from the label's fields.
C7_FirstPresentLinkWins ==
    (pc = "linked" /\ entry.type \in TypedEntryTypes) =>
        \A r \in 1..Len(AssetRules(entry.type)) :
            LET rule == AssetRules(entry.type)[r]
                have == Present(entry, rule.fields)
                good == PresentLinks(entry, rule.fields)
            IN  Len(have) >= 2 =>
                  \A k \in 1..Len(FieldLinks) :
                      FieldLinks[k].label = rule.label =>
                          /\ good # <<>>
                          /\ FieldLinks[k].href = normalizeLinkTarget(entry.fields[good[1]])

\* two presentation fields that both look like links: the first one is used
C7_Witness ==
    /\ pc = "linked"
    /\ entry.type = "inproceedings"
    /\ DOMAIN entry.fields = {"presentation_link", "talk_url"}
    /\ entry.fields["presentation_link"] = "a.pdf"
    /\ entry.fields["talk_url"] = "https://x.org/a"
    /\ links = << [label |-> "Presentation", href |-> "pdfs/a.pdf"] >>

(***************************************************************************)
(* C11                                                                     *)
(***************************************************************************)
\* C11: buildLinks returns at most one link per label: no two links of one
\* entry carry the same label, whatever the type, the fields and the answer
\* of fs.existsSync.
C11_OneLinkPerLabel ==
    pc = "linked" =>
        \A p, q \in 1..Len(links) : p # q => links[p].label # links[q].label

\* a thesis with a final-draft field and a presentation field: one link for
\* each of the two labels
C11_Witness ==
    /\ pc = "linked"
    /\ entry.type = "mastersthesis"
    /\ DOMAIN entry.fields = {"final_draft", "slides_url"}
    /\ entry.fields["final_draft"] = "a.pdf"
    /\ entry.fields["slides_url"] = "https://x.org/a"
    /\ links = << [label |-> "Final Draft", href |-> "pdfs/a.pdf"],
                  [label |-> "Presentation", href |-> "https://x.org/a"] >>

(***************************************************************************)
(* C12                                                                     *)
(***************************************************************************)
Unclassified == entry.type \notin TypedEntryTypes

HasUrl == "url" \in DOMAIN entry.fields /\ entry.fields["url"] # ""

HasDoi == "doi" \in DOMAIN entry.fields /\ entry.fields["doi"] # ""

\* the url field matches the doi.org pattern
UrlIsDoi == HasUrl /\ ContainsNoCase(entry.fields["url"], "doi.org/")

\* a DOI link built from the doi field is returned when the url field does
\* not cover the DOI
DoiLinkUnlessCovered ==
    (HasDoi /\ ~UrlIsDoi) =>
        \E k \in 1..Len(links) :
            links[k] = [label |-> "DOI", href |-> "https://doi.org/" \o entry.fields["doi"]]

\* the url link comes first, labeled by the doi.org pattern
UrlLinkFirst ==
    HasUrl =>
        /\ Len(links) > 0
        /\ links[1] = [label |-> IF UrlIsDoi THEN "DOI" ELSE "Link",
                       href |-> entry.fields["url"]]

\* a PDF link is the last link exactly when the file exists
PdfLinkLast ==
    pdfExists <=>
        /\ Len(links) > 0
        /\ links[Len(links)] = [label |-> "PDF", href |-> DefaultHref(entry)]

\* C12: for an entry of an unclassified type with a doi field, buildLinks
\* returns a "DOI" link whenever the url field does not cover the DOI, also
\* when there is no url field; a url link comes first, labeled "DOI" or
\* "Link"; a "PDF" link is added last exactly when the file exists.
C12_FallbackDoiLink ==
    (pc = "linked" /\ Unclassified /\ HasDoi) =>
        (DoiLinkUnlessCovered /\ UrlLinkFirst /\ PdfLinkLast)

\* the part of C12 the fallback branch keeps: with a url field that is not
\* itself the path of the PDF, all three statements hold
C12_FallbackWithUrl ==
    (pc = "linked" /\ Unclassified /\ HasDoi /\ HasUrl
        /\ entry.fields["url"] # DefaultHref(entry)) =>
        (DoiLinkUnlessCovered /\ UrlLinkFirst /\ PdfLinkLast)

\* without a url field the doi field yields no link at all
C12_NoDoiLinkWithoutUrl ==
    (pc = "linked" /\ Unclassified /\ HasDoi /\ ~HasUrl) =>
        \A k \in 1..Len(links) : links[k].label # "DOI"

(***************************************************************************)
(* Entry lists of every type (SpecHtml)                                    *)
(***************************************************************************)
MaxHtmlEntries == 2

\* two mapped types, a type with no mapping, and a type that names a
\* property every JavaScript object inherits
HtmlTypes == {"article", "unpublished", "misc", "constructor"}

HtmlYearChoices == { NoFields, [n \in {"year"} |-> "9"], [n \in {"year"} |-> "10"] }

HtmlTitleChoices == { [n \in {"title"} |-> "a"], [n \in {"title"} |-> "b"] }

HtmlFieldChoices == { Merge(y, t) : y \in HtmlYearChoices, t \in HtmlTitleChoices }

HtmlEntryLists ==
    UNION { { [k \in 1..n |-> [type |-> c[k][1], key |-> KeyNames[k], fields |-> c[k][2]]]
              : c \in [1..n -> HtmlTypes \X HtmlFieldChoices] } : n \in 1..MaxHtmlEntries }

InitHtml ==
    /\ entries \in HtmlEntryLists
    /\ pdfExists \in BOOLEAN
    /\ pc = "parsed"
    /\ tex = "" /\ i = 0 /\ cur = NoRecord /\ read = NoRead /\ prev = NoStep
    /\ recs = <<>>
    /\ cleaned = <<>> /\ bibFile = "" /\ reread = <<>>
    /\ entry = NoRecord /\ links = <<>>
    /\ NoRender /\ NoAuthorRun /\ NoFiles

SpecHtml == InitHtml /\ [][NextHtml]_vars

(***************************************************************************)
(* C4                                                                      *)
(***************************************************************************)
\* the heading of the given kind above line k: the last one before it
HeadingAbove(k, kind) ==
    IF \E h \in 1..(k - 1) : html[h].kind = kind
    THEN html[CHOOSE h \in 1..(k - 1) :
                /\ html[h].kind = kind
                /\ \A g \in (h + 1)..(k - 1) : html[g].kind # kind].text
    ELSE ""

\* the lines that render the entry: under its year and its category
RenderedIn(e, year, category) ==
    { k \in 1..Len(html) :
        /\ html[k].kind = "entry" /\ html[k].key = e.key
        /\ HeadingAbove(k, "year") = year
        /\ HeadingAbove(k, "category") = category }

RenderedAnywhere(e) ==
    { k \in 1..Len(html) : html[k].kind = "entry" /\ html[k].key = e.key }

\* a year heading is followed by a category heading, a category heading by
\* an entry
NoEmptyHeading ==
    \A k \in 1..Len(html) :
        /\ html[k].kind = "year" => (k < Len(html) /\ html[k + 1].kind = "category")
        /\ html[k].kind = "category" => (k < Len(html) /\ html[k + 1].kind = "entry")

EveryEntryInItsBucket ==
    \A k \in 1..Len(cleaned) :
        /\ Cardinality(RenderedAnywhere(cleaned[k])) = 1
        /\ RenderedAnywhere(cleaned[k])
             = RenderedIn(cleaned[k], getYear(cleaned[k]), CategoryOfOwn(cleaned[k].type))

\* C4: every entry is rendered in exactly one (year, category) bucket, the
\* category being the table value of its type or "Other", and no year or
\* category heading is emitted without an entry under it.
C4_GroupingComplete ==
    pc = "rendered" => (EveryEntryInItsBucket /\ NoEmptyHeading)

\* C4 holds of every list in which no type names an inherited property
C4_GroupingCompleteOwnTypes ==
    (pc = "rendered" /\ \A k \in 1..Len(cleaned) : cleaned[k].type # "constructor")
        => (EveryEntryInItsBucket /\ NoEmptyHeading)

(***************************************************************************)
(* Author fields (SpecAuthors)                                             *)
(***************************************************************************)
MaxPersons == 2

\* persons as written, each with the display form "First Last" of its name
\* and that form escaped for HTML; strong marks Symon Stowe
AuthorPersons ==
    { [text |-> "Doe, Jane",     display |-> "Jane Doe",    safe |-> "Jane Doe",         strong |-> FALSE],
      [text |-> "Smith,John",    display |-> "John Smith",  safe |-> "John Smith",       strong |-> FALSE],
      [text |-> "Jane Q Doe",    display |-> "Jane Q Doe",  safe |-> "Jane Q Doe",       strong |-> FALSE],
      [text |-> "Jane \t Doe",   display |-> "Jane Doe",    safe |-> "Jane Doe",         strong |-> FALSE],
      [text |-> "Anderson",      display |-> "Anderson",    safe |-> "Anderson",         strong |-> FALSE],
      [text |-> "Doe, Jane, Jr", display |-> "Jane Doe",    safe |-> "Jane Doe",         strong |-> FALSE],
      [text |-> "A&B, C<D",      display |-> "C<D A&B",     safe |-> "C&lt;D A&amp;B",   strong |-> FALSE],
      [text |-> "Stowe, Symon",  display |-> "Symon Stowe", safe |-> "Symon Stowe",      strong |-> TRUE],
      [text |-> "S. Stowe",      display |-> "S. Stowe",    safe |-> "S. Stowe",         strong |-> TRUE],
      [text |-> "Stowe, Sam",    display |-> "Sam Stowe",   safe |-> "Sam Stowe",        strong |-> FALSE],
      [text |-> "Symon Doe",     display |-> "Symon Doe",   safe |-> "Symon Doe",        strong |-> FALSE] }

\* "and" between whitespace, in either case
AuthorSeparators == {" and ", " AND ", "\tand\n ", "  And  "}

\* the persons of a list and the separator written after each but the last
AuthorLists ==
    UNION { [people : [1..n -> AuthorPersons], seps : [1..(n - 1) -> AuthorSeparators]]
            : n \in 0..MaxPersons }

RECURSIVE AuthorText(_, _)
AuthorText(l, k) ==
    IF k > Len(l.people) THEN ""
    ELSE l.people[k].text
         \o (IF k < Len(l.people) THEN l.seps[k] \o AuthorText(l, k + 1) ELSE "")

InitAuthors ==
    /\ recs \in AuthorLists
    /\ authorField = AuthorText(recs, 1)
    /\ authors = ""
    /\ pc = "author"
    /\ tex = "" /\ i = 0 /\ entries = <<>> /\ cur = NoRecord /\ read = NoRead /\ prev = NoStep
    /\ cleaned = <<>> /\ bibFile = "" /\ reread = <<>>
    /\ NoLinkRun /\ NoRender /\ NoFiles

SpecAuthors == InitAuthors /\ [][NextAuthors]_vars

(***************************************************************************)
(* C8                                                                      *)
(***************************************************************************)
\* C8: normalizeAuthorList returns the persons of the field, split on "and"
\* between whitespace in either case, in input order joined by ", ", each
\* displayed as "First Last" ("Last, First" swapped, the last token of a
\* person without a comma as surname, a single token as is).
C8_FirstLast ==
    pc = "authors" =>
        authors = Join([k \in 1..Len(recs.people) |-> recs.people[k].display], ", ")

\* C8 as amended: each person is displayed as "First Last" escaped for HTML,
\* and Symon Stowe's name is wrapped in <strong>...</strong>.
C8_FirstLastEscapedMarked ==
    pc = "authors" =>
        authors = Join([k \in 1..Len(recs.people) |->
                          IF recs.people[k].strong
                          THEN "<strong>" \o recs.people[k].safe \o "</strong>"
                          ELSE recs.people[k].safe], ", ")

C8_Witness ==
    /\ pc = "authors"
    /\ authorField = "Doe, Jane and Smith,John"
    /\ authors = "Jane Doe, John Smith"

(***************************************************************************)
(* Runs of the script (SpecRun)                                            *)
(***************************************************************************)
MaxIndexLen == 4

IndexSegments ==
    { startMarker, endMarker, lastUpdatedMarker,
      "Site last updated on: January 1, 2020 (UTC)", "<p>text</p>" }

IndexFiles == SeqsUpTo(IndexSegments, MaxIndexLen)

\* a closed record, a record with a bare value, a record cut off in a value
RunTexts == { "@article{k,title={T},year={2020}}", "@misc{k,t=a}", "@misc{k,t={a" }

InitRun ==
    /\ tex \in RunTexts
    /\ indexFile \in IndexFiles
    /\ writes = <<>>
    /\ pc = "record"
    /\ i = 0
    /\ entries = <<>>
    /\ cur = NoRecord
    /\ read = NoRead
    /\ prev = NoStep
    /\ recs = <<>>
    /\ cleaned = <<>> /\ bibFile = tex /\ reread = <<>>
    /\ NoLinkRun /\ NoRender /\ NoAuthorRun

SpecRun == InitRun /\ [][NextRun]_vars

(***************************************************************************)
(* C10                                                                     *)
(***************************************************************************)
MissingPublicationMarker ==
    ~Includes(indexFile, startMarker) \/ ~Includes(indexFile, endMarker)

\* C10: a run whose index.html lacks the start marker or the end marker
\* ends in an error with neither index.html nor systowe.bib written, and
\* every run has written both files or none when it ends.
C10_FailFastNoWrites ==
    /\ (pc = "error" /\ MissingPublicationMarker) => (writes = <<>> /\ bibFile = tex)
    /\ pc \in {"error", "done"} => writes \in { <<>>, <<"systowe.bib", "index.html">> }

\* the half of C10 the code keeps: such a run ends in the error and does not
\* write index.html
C10_IndexUntouchedOnError ==
    /\ (pc \in {"error", "done"} /\ MissingPublicationMarker) => pc = "error"
    /\ pc = "error" => ~Includes(writes, "index.html")

(***************************************************************************)
(* C13                                                                     *)
(***************************************************************************)
\* the lines of html that are headings of the given kind, in output order
HeadingLines(kind) == { k \in 1..Len(html) : html[k].kind = kind }

\* a year as a number: a digit string by its value, any other year as 0
YearValue(y) == IF IsDigits(y) THEN DecimalValue(y) ELSE 0

CategoryIndex(c) == CHOOSE k \in 1..Len(CATEGORY_ORDER) : CATEGORY_ORDER[k] = c

\* no year heading lies between lines p and q
SameYear(p, q) == \A k \in p..q : html[k].kind # "year"

YearHeadingsDescending ==
    \A p, q \in HeadingLines("year") : p < q =>
        /\ YearValue(html[p].text) >= YearValue(html[q].text)
        /\ ~IsDigits(html[p].text) =>
               ~(IsDigits(html[q].text) /\ DecimalValue(html[q].text) > 0)

CategoryHeadingsInOrder ==
    /\ \A p \in HeadingLines("category") :
          \E k \in 1..Len(CATEGORY_ORDER) : CATEGORY_ORDER[k] = html[p].text
    /\ \A p, q \in HeadingLines("category") : (p < q /\ SameYear(p, q)) =>
          CategoryIndex(html[p].text) < CategoryIndex(html[q].text)

\* C13: in the output for a list in cleanEntries order, the year headings are
\* in numerically descending order, a non-numeric year counting as 0 and
\* coming after every positive year, and within a year the category headings
\* follow CATEGORY_ORDER, "Other" last.
C13_HeadingsOrdered ==
    pc = "rendered" => (YearHeadingsDescending /\ CategoryHeadingsInOrder)

\* year 9 was read before year 10, and 10 is rendered first
C13_Witness ==
    /\ pc = "rendered"
    /\ Len(entries) = 2
    /\ getYear(entries[1]) = "9"
    /\ getYear(entries[2]) = "10"
    /\ \E p, q \in HeadingLines("year") :
          p < q /\ html[p].text = "10" /\ html[q].text = "9"

\* an entry without a year and one of year 9, a talk and an article: the
\* year 9 comes first, and within a year Publications comes before Talks
C13_OrderExamples ==
    pc = "rendered" =>
        /\ \A p, q \in HeadingLines("year") :
              (html[p].text = "Unknown" /\ html[q].text \in {"9", "10"}) => q < p
        /\ \A p, q \in HeadingLines("category") :
              (SameYear(IF p < q THEN p ELSE q, IF p < q THEN q ELSE p)
                 /\ html[p].text = "Publications" /\ html[q].text = "Talks") => p < q

=============================================================================
